---- MODULE Spec2Model ----
(***************************************************************************)
(* The lexer driver of the C++ runtime (runtime/Cpp/runtime/Lexer.cpp):    *)
(* the nextToken() loop, the emission operations, the mode stack, reset()  *)
(* and getAllTokens(), over an input cursor, a recognition engine and a    *)
(* token factory that the driver only calls.                               *)
(*                                                                         *)
(* The recognition engine is deterministic: what match() does is fixed by  *)
(* the character under the cursor and the current mode (one lexer rule per *)
(* character class, see Rule).  The inputs range over all strings of these *)
(* characters up to MaxLen, so the driver is exercised with every          *)
(* combination of rules.                                                   *)
(***************************************************************************)
EXTENDS Integers, Sequences, FiniteSets, TLC

\* ---------------------------------------------------------------- bounds
MaxLen == 3          \* longest input
MaxStack == 2        \* deepest mode stack the caller builds
MaxModeLen == 1      \* longest input of the runs with a mode-changing caller
MaxLoopLen == 2      \* longest input of the runs checked for termination
MaxChain == 3        \* the count of MORE continuations saturates here
MaxStreamLen == 1    \* longest input of the runs that replace the cursor
MaxLog == MaxLen + 1 \* the listener's log and the candidate count saturate here

\* ------------------------------------------------------------- constants
EOF == -1
MORE == -2
SKIP == -3
INVALID_TYPE == 0
DEFAULT_CHANNEL == 0
HIDDEN_CHANNEL == DEFAULT_CHANNEL + 1
DEFAULT_MODE == 0
OTHER_MODE == DEFAULT_MODE + 1

Modes == {DEFAULT_MODE, OTHER_MODE}

\* The characters of the inputs; each selects the rule the engine matches
\* when a match starts on it.
Alphabet == {"a", "w", "n", "m", "#", "z", "h", "e", "s", "p", "q", "M"}

RECURSIVE Strings(_, _)
Strings(A, k) ==
  IF k = 0 THEN {<<>>}
  ELSE LET S == Strings(A, k - 1)
       IN  S \cup {Append(s, c) : s \in {t \in S : Len(t) = k - 1}, c \in A}

Inputs == Strings(Alphabet, MaxLen)

\* The rules that decide whether a call ends: a token, SKIP, MORE, a
\* failure away from and at end of input, an action that throws, a match
\* of nothing.
LoopAlphabet == {"a", "n", "m", "#", "w", "q", "z"}

VARIABLES
  \* the input cursor
  input, attached, idx, marks,
  \* the engine's position tracker
  line, col,
  \* the driver's fields
  token, tokenFreed, type, channel, startIdx, startLine, startCol, text,
  hitEOF, mode, modeStack,
  \* control: where the running call is, which external call it is, the
  \* vector of getAllTokens(), the result of the last finished call
  pc, caller, tokens, ret,
  \* history
  taken, released, prevTok, lastTok, notes, fails, saved, lastPop,
  first, chain, cand, skipped, afterSkip, spin, returned, gatDone,
  \* the call under way or just finished is the getAllTokens() that directly
  \* followed a reset()
  rerun,
  \* the calls of the token factory for the candidate (or the end-of-input
  \* token) of the call under way
  made,
  \* the caller holds the token _token points to (nextToken() returned it);
  \* the step just taken destroyed a live token that the caller holds
  held, destroyedHeld,
  \* the cursor objects: the one attached (0: none), the one the source pair
  \* names, the one last given to setInputStream(); an operation was
  \* performed on a destroyed cursor
  cursor, pair, given, staleUse

vars == <<input, attached, idx, marks, line, col,
          token, tokenFreed, type, channel, startIdx, startLine, startCol, text,
          hitEOF, mode, modeStack, pc, caller, tokens, ret,
          taken, released, prevTok, lastTok, notes, fails, saved, lastPop,
          first, chain, cand, skipped, afterSkip, spin, returned, gatDone,
          rerun, made, held, destroyedHeld, cursor, pair, given, staleUse>>

streamVars == <<cursor, pair, given, staleUse>>
cursorVars == <<input, attached, idx, line, col, streamVars>>
fieldVars == <<token, tokenFreed, type, channel, startIdx, startLine, startCol, text, hitEOF>>
modeVars == <<mode, modeStack>>
callVars == <<marks, taken, released>>
candVars == <<first, chain, cand, skipped, afterSkip, spin>>
logVars == <<prevTok, lastTok, notes, fails, returned, gatDone>>

\* ---------------------------------------------------------------- tokens
NullToken ==
  [k |-> "null", type |-> 0, text |-> "", channel |-> 0, start |-> 0,
   stop |-> 0, line |-> 0, col |-> 0, by |-> "", cand |-> 0]

\* TokenFactory::create: a token made of its arguments.  by and cand are
\* history: which operation made the token, for which candidate of the call.
Create(ty, tx, ch, start, stop, ln, cl, by, cd) ==
  [k |-> "tok", type |-> ty, text |-> tx, channel |-> ch, start |-> start,
   stop |-> stop, line |-> ln, col |-> cl, by |-> by, cand |-> cd]

NoRet == [kind |-> "none", tok |-> NullToken, toks |-> <<>>, exc |-> "", val |-> 0]
TokRet(t) == [NoRet EXCEPT !.kind = "token", !.tok = t]
ToksRet(ts) == [NoRet EXCEPT !.kind = "tokens", !.toks = ts]
ExcRet(e) == [NoRet EXCEPT !.kind = "exc", !.exc = e]
ModeRet(m) == [NoRet EXCEPT !.kind = "mode", !.val = m]
VoidRet == [NoRet EXCEPT !.kind = "void"]

NoPos == [idx |-> -1, line |-> -1, col |-> -1]
NoPop ==
  [done |-> FALSE, empty |-> FALSE, exc |-> "", ret |-> 0, mode |-> 0,
   stack |-> <<>>, wantMode |-> 0, wantStack |-> <<>>]

\* ----------------------------------------------------------- the engine
\* The token type the rules of mode m produce.
TypeIn(m) == m + 1
CUSTOM_TYPE == TypeIn(OTHER_MODE) + 1

Remaining(in, i) == Len(in) - i

\* CharStream::LA(1) == EOF
AtEOF(in, i) == i >= Len(in)

\* The rule matched when a match starts at character c with rem characters
\* left: n characters consumed, whether the match ends in a
\* no-viable-alternative failure, the type returned, the actions executed.
Rule(c, rem, m) ==
  CASE c = "a" -> [n |-> 1, fail |-> FALSE, ttype |-> TypeIn(m), acts |-> <<>>]
    [] c = "w" -> IF rem >= 2
                  THEN [n |-> 2, fail |-> FALSE, ttype |-> TypeIn(m), acts |-> <<>>]
                  ELSE [n |-> 1, fail |-> TRUE, ttype |-> INVALID_TYPE, acts |-> <<>>]
    [] c = "n" -> [n |-> 1, fail |-> FALSE, ttype |-> SKIP, acts |-> <<>>]
    [] c = "m" -> [n |-> 1, fail |-> FALSE, ttype |-> TypeIn(m), acts |-> <<"more">>]
    [] c = "M" -> [n |-> 1, fail |-> FALSE, ttype |-> MORE, acts |-> <<"setChannel", "setText">>]
    [] c = "z" -> [n |-> 0, fail |-> FALSE, ttype |-> TypeIn(m), acts |-> <<"more">>]
    [] c = "#" -> [n |-> 0, fail |-> TRUE, ttype |-> INVALID_TYPE, acts |-> <<>>]
    [] c = "h" -> [n |-> 1, fail |-> FALSE, ttype |-> TypeIn(m), acts |-> <<"setChannel", "setText">>]
    [] c = "e" -> [n |-> 1, fail |-> FALSE, ttype |-> TypeIn(m), acts |-> <<"emit">>]
    [] c = "s" -> [n |-> 1, fail |-> FALSE, ttype |-> TypeIn(m), acts |-> <<"emit", "setChannel", "skip">>]
    [] c = "p" -> [n |-> 1, fail |-> FALSE, ttype |-> TypeIn(m), acts |-> <<"pushMode">>]
    [] c = "q" -> [n |-> 1, fail |-> FALSE, ttype |-> TypeIn(m), acts |-> <<"popMode">>]

\* LexerATNSimulator::match at cursor index i in mode m.  At end of input
\* it consumes nothing, runs no action and answers EOF.
EngineMatch(in, i, m) ==
  IF AtEOF(in, i)
  THEN [n |-> 0, fail |-> FALSE, ttype |-> EOF, acts |-> <<>>]
  ELSE Rule(in[i + 1], Remaining(in, i), m)

\* LexerATNSimulator::consume: one character; a newline ("n") starts a line.
ConsumeOne(in, p) ==
  IF in[p.idx + 1] = "n"
  THEN [idx |-> p.idx + 1, line |-> p.line + 1, col |-> 0]
  ELSE [idx |-> p.idx + 1, line |-> p.line, col |-> p.col + 1]

RECURSIVE Advance(_, _, _)
Advance(in, p, n) == IF n = 0 THEN p ELSE Advance(in, ConsumeOne(in, p), n - 1)

\* ------------------------------------------------- the driver's operations
\* Lexer::skip, Lexer::more, Lexer::setChannel, Lexer::setText,
\* Lexer::emit(Token*), Lexer::mode on the driver's fields d.
Skip(d) == [d EXCEPT !.type = SKIP]
More(d) == [d EXCEPT !.type = MORE]
SetChannel(d, c) == [d EXCEPT !.channel = c]
SetText(d, t) == [d EXCEPT !.text = t]
EmitToken(d, t) == [d EXCEPT !.token = t, !.held = FALSE]
Mode(d, m) == [d EXCEPT !.mode = m]

\* PushMode that saves the new mode instead of the current one.
PushModeSavesNew(d, m) == Mode([d EXCEPT !.modeStack = Append(d.modeStack, m)], m)

\* PopMode without the test for an empty stack.
PopModeUnchecked(d) ==
  IF d.modeStack = <<>>
  THEN [Mode(d, DEFAULT_MODE) EXCEPT !.ret = DEFAULT_MODE]
  ELSE LET top == d.modeStack[Len(d.modeStack)]
           d1 == Mode(d, top)
       IN  [d1 EXCEPT !.modeStack = SubSeq(d1.modeStack, 1, Len(d1.modeStack) - 1),
                      !.ret = d1.mode]

\* Lexer::pushMode
PushMode(d, m) == Mode([d EXCEPT !.modeStack = Append(d.modeStack, d.mode)], m)

\* Lexer::popMode: EmptyStackException on an empty stack, else the top of
\* the stack becomes the mode and is removed; ret is the value returned.
PopMode(d) ==
  IF d.modeStack = <<>>
  THEN [d EXCEPT !.exc = "EmptyStack"]
  ELSE LET top == d.modeStack[Len(d.modeStack)]
           d1 == Mode(d, top)
       IN  [d1 EXCEPT !.modeStack = SubSeq(d1.modeStack, 1, Len(d1.modeStack) - 1),
                      !.ret = d1.mode]

\* Emit with the cursor index itself as the stop index.
EmitStopAtCursor(d, i) ==
  EmitToken([d EXCEPT !.made = d.made + 1],
            Create(d.type, d.text, d.channel, d.startIdx, i,
                   d.startLine, d.startCol, "emit", d.cand))

\* Lexer::emit(): the factory is called with the pending fields, the
\* captured start and the cursor index minus one as stop.
Emit(d, i) ==
  EmitToken([d EXCEPT !.made = d.made + 1],
            Create(d.type, d.text, d.channel, d.startIdx, i - 1,
                   d.startLine, d.startCol, "emit", d.cand))

\* EmitEOF with the pending channel instead of the default one.
EmitEOFKeepsChannel(d, p) ==
  LET cpos == IF d.token.k # "null"
              THEN d.token.col + (d.token.stop - d.token.start + 1)
              ELSE p.col
  IN  EmitToken([d EXCEPT !.made = d.made + 1],
                Create(EOF, "", d.channel, p.idx, p.idx - 1, p.line,
                       cpos, "emitEOF", d.cand))

\* Lexer::emitEOF(): the column is one past the token the driver still
\* holds, when it holds one, else the engine's column.
EmitEOF(d, p) ==
  LET cpos == IF d.token.k # "null"
              THEN d.token.col + (d.token.stop - d.token.start + 1)
              ELSE p.col
  IN  EmitToken([d EXCEPT !.made = d.made + 1],
                Create(EOF, "", DEFAULT_CHANNEL, p.idx, p.idx - 1, p.line,
                       cpos, "emitEOF", d.cand))

\* The token an action hands to emit(Token*): one it built itself over the
\* span matched so far.
CustomToken(d, i) ==
  Create(CUSTOM_TYPE, "tok", DEFAULT_CHANNEL, d.startIdx, i - 1, d.startLine,
         d.startCol, "action", d.cand)

\* pushMode and popMode with their history: saved keeps, per pushMode not
\* yet popped, the mode and stack it found; lastPop keeps what the last
\* popMode found, did and should have restored.
DoPush(d, m) ==
  [PushMode(d, m) EXCEPT
     !.saved = Append(d.saved, [mode |-> d.mode, stack |-> d.modeStack])]

DoPop(d) ==
  LET d1 == PopMode(d)
      n == Len(d.saved)
  IN  [d1 EXCEPT
         !.saved = IF n = 0 THEN <<>> ELSE SubSeq(d.saved, 1, n - 1),
         !.lastPop = [done |-> TRUE, empty |-> d.modeStack = <<>>,
                      exc |-> d1.exc, ret |-> d1.ret,
                      mode |-> d1.mode, stack |-> d1.modeStack,
                      wantMode |-> IF n = 0 THEN d.mode ELSE d.saved[n].mode,
                      wantStack |-> IF n = 0 THEN d.modeStack ELSE d.saved[n].stack]]

\* One action of a rule, executed by the engine on the driver with the
\* cursor at index i.
ApplyAct(d, a, i) ==
  CASE a = "skip" -> Skip(d)
    [] a = "more" -> More(d)
    [] a = "setChannel" -> SetChannel(d, HIDDEN_CHANNEL)
    [] a = "setText" -> SetText(d, "x")
    [] a = "emit" -> EmitToken(d, CustomToken(d, i))
    [] a = "pushMode" -> DoPush(d, OTHER_MODE)
    [] a = "popMode" -> DoPop(d)

\* The actions of a rule in order; an exception ends them.
RECURSIVE ApplyActs(_, _, _)
ApplyActs(d, acts, i) ==
  IF acts = <<>> \/ d.exc # "" THEN d
  ELSE ApplyActs(ApplyAct(d, Head(acts), i), Tail(acts), i)

\* A history log with one more entry, up to MaxLog entries.
Log(log, e) == IF Len(log) < MaxLog THEN Append(log, e) ELSE log

\* Recover that consumes nothing.
RecoverNoConsume(in, p) == p

\* Lexer::notifyListeners: the listener gets the captured start line and
\* column and the text from the captured start to the cursor index.
NotifyListeners(d, p) ==
  [start |-> d.startIdx, at |-> p.idx, line |-> d.startLine, col |-> d.startCol]

\* Lexer::recover(LexerNoViableAltException): one character is consumed
\* unless the cursor is at end of input.
Recover(in, p) == IF ~AtEOF(in, p.idx) THEN ConsumeOne(in, p) ELSE p

\* HandleNoViable with the two calls swapped: recover, then notify.
HandleNoViableRecoverFirst(in, d, p, log) ==
  [log |-> Log(log, NotifyListeners(d, Recover(in, p))), pos |-> Recover(in, p)]

\* The catch block of nextToken(): notify, then recover.  notes is the
\* listener's log.
HandleNoViable(in, d, p, log) ==
  [log |-> Log(log, NotifyListeners(d, p)), pos |-> Recover(in, p)]

\* OnExit as a release written at the return statements only.
OnExitReturnOnly(m, how) == IF how = "throw" THEN m ELSE m - 1

\* The scope guard of nextToken(): the mark is released on every way out
\* (how: "return" or "throw").
OnExit(m, how) == m - 1

\* return _token: the caller now holds the token.
Handed(d) == [d EXCEPT !.held = TRUE]

\* The driver's fields as one record; exc and ret are the exception raised
\* and the value returned by the operation under way.
Fields ==
  [token |-> token, tokenFreed |-> tokenFreed, type |-> type, channel |-> channel,
   startIdx |-> startIdx, startLine |-> startLine, startCol |-> startCol,
   text |-> text, hitEOF |-> hitEOF, mode |-> mode, modeStack |-> modeStack,
   exc |-> "", ret |-> 0, cand |-> cand, saved |-> saved, lastPop |-> lastPop,
   made |-> made, held |-> held, destroyedHeld |-> FALSE]

Commit(d) ==
  /\ token' = d.token
  /\ tokenFreed' = d.tokenFreed
  /\ type' = d.type
  /\ channel' = d.channel
  /\ startIdx' = d.startIdx
  /\ startLine' = d.startLine
  /\ startCol' = d.startCol
  /\ text' = d.text
  /\ hitEOF' = d.hitEOF
  /\ mode' = d.mode
  /\ modeStack' = d.modeStack
  /\ saved' = d.saved
  /\ lastPop' = d.lastPop
  /\ made' = d.made
  /\ held' = d.held
  /\ destroyedHeld' = d.destroyedHeld

Pos == [idx |-> idx, line |-> line, col |-> col]

SetPos(p) ==
  /\ idx' = p.idx
  /\ line' = p.line
  /\ col' = p.col

\* ------------------------------------------------------------------ Init
\* Whether a driver built by Lexer::Lexer() has a cursor: the constructor
\* assigns none, and the member starts as the null pointer.
AttachedByDefault == FALSE

\* The state after construction (Lexer::Lexer, InitializeInstanceFields),
\* with a cursor over any input, or with none; the engine starts at line 1,
\* column 0.
Init ==
  /\ attached \in {TRUE, AttachedByDefault}
  /\ input \in (IF attached THEN Inputs ELSE {<<>>})
  /\ idx = 0
  /\ marks = 0
  /\ line = 1
  /\ col = 0
  /\ token = NullToken
  /\ tokenFreed = FALSE
  /\ type = 0
  /\ channel = 0
  /\ startIdx = -1
  /\ startLine = 0
  /\ startCol = 0
  /\ text = ""
  /\ hitEOF = FALSE
  /\ mode = DEFAULT_MODE
  /\ modeStack = <<>>
  /\ pc = "idle"
  /\ caller = ""
  /\ tokens = <<>>
  /\ ret = NoRet
  /\ taken = 0
  /\ released = 0
  /\ prevTok = NullToken
  /\ lastTok = NullToken
  /\ notes = <<>>
  /\ fails = <<>>
  /\ saved = <<>>
  /\ lastPop = NoPop
  /\ first = NoPos
  /\ chain = 0
  /\ cand = 0
  /\ skipped = {}
  /\ afterSkip = -1
  /\ spin = 0
  /\ returned = <<>>
  /\ gatDone = 0
  /\ rerun = FALSE
  /\ made = 0
  /\ held = FALSE
  /\ destroyedHeld = FALSE
  /\ cursor = (IF attached THEN 1 ELSE 0)
  /\ pair = cursor
  /\ given = cursor
  /\ staleUse = FALSE

\* --------------------------------------------------------------- actions
\* Enter with the mark taken before the test for a cursor.
EnterMarksFirst ==
  IF ~attached
  THEN /\ pc' = "idle"
       /\ ret' = ExcRet("IllegalState")
       /\ marks' = marks + 1
       /\ taken' = 1
       /\ released' = 0
       /\ UNCHANGED <<cursorVars, fieldVars, modeVars, candVars, saved, lastPop>>
       /\ UNCHANGED <<prevTok, lastTok, notes, fails, gatDone, made, held>>
       /\ destroyedHeld' = FALSE
  ELSE /\ pc' = "outer"
       /\ marks' = marks + 1
       /\ taken' = 1
       /\ released' = 0
       /\ cand' = 0
       /\ skipped' = {}
       /\ afterSkip' = -1
       /\ chain' = 0
       /\ first' = NoPos
       /\ made' = 0
       /\ UNCHANGED <<cursorVars, fieldVars, modeVars, saved, lastPop, spin, ret>>
       /\ UNCHANGED held
       /\ destroyedHeld' = FALSE
       /\ UNCHANGED <<prevTok, lastTok, notes, fails, gatDone>>

\* The entry of nextToken(): IllegalState without a cursor, else the mark
\* is taken and the loop is entered.
Enter ==
  IF ~attached
  THEN /\ pc' = "idle"
       /\ ret' = ExcRet("IllegalState")
       /\ UNCHANGED <<cursorVars, fieldVars, modeVars, callVars, candVars, saved, lastPop>>
       /\ UNCHANGED <<prevTok, lastTok, notes, fails, gatDone, made, held>>
       /\ destroyedHeld' = FALSE
  ELSE /\ pc' = "outer"
       /\ marks' = marks + 1
       /\ taken' = 1
       /\ released' = 0
       /\ cand' = 0
       /\ skipped' = {}
       /\ afterSkip' = -1
       /\ chain' = 0
       /\ first' = NoPos
       /\ made' = 0
       /\ UNCHANGED <<cursorVars, fieldVars, modeVars, saved, lastPop, spin, ret>>
       /\ UNCHANGED held
       /\ destroyedHeld' = FALSE
       /\ UNCHANGED <<prevTok, lastTok, notes, fails, gatDone>>

\* nextToken() returns t: the scope guard releases the mark.
ReturnToken(t) ==
  /\ marks' = OnExit(marks, "return")
  /\ released' = released + 1
  /\ taken' = taken
  /\ prevTok' = lastTok
  /\ lastTok' = t
  /\ returned' = IF caller = "getAllTokens" THEN Append(returned, t) ELSE returned
  /\ ret' = TokRet(t)
  /\ pc' = IF caller = "getAllTokens" THEN "gat" ELSE "idle"
  /\ UNCHANGED <<caller, tokens, gatDone>>

\* An exception leaves nextToken() (and getAllTokens() around it): the scope
\* guard releases the mark.
Throw(e) ==
  /\ marks' = OnExit(marks, "throw")
  /\ released' = released + 1
  /\ taken' = taken
  /\ ret' = ExcRet(e)
  /\ pc' = "idle"
  /\ tokens' = <<>>
  /\ UNCHANGED <<caller, prevTok, lastTok, returned, gatDone>>

\* The caller calls nextToken().
CallNextToken ==
  /\ pc = "idle"
  /\ caller' = "nextToken"
  /\ rerun' = FALSE
  /\ tokens' = tokens
  /\ returned' = returned
  /\ Enter

\* The caller calls getAllTokens(): an empty vector, then the first
\* nextToken().
CallGetAllTokens ==
  /\ pc = "idle"
  /\ caller' = "getAllTokens"
  /\ rerun' = (caller = "reset")
  /\ tokens' = <<>>
  /\ returned' = <<>>
  /\ Enter

\* GetAllTokensStep with the end-of-input token kept in the vector.
GetAllTokensStepKeepsEOF ==
  /\ pc = "gat"
  /\ UNCHANGED rerun
  /\ IF ret.tok.type # EOF
     THEN /\ tokens' = Append(tokens, ret.tok)
          /\ caller' = caller
          /\ returned' = returned
          /\ Enter
     ELSE /\ ret' = ToksRet(Append(tokens, ret.tok))
          /\ tokens' = <<>>
          /\ pc' = "idle"
          /\ gatDone' = IF gatDone < 2 THEN gatDone + 1 ELSE gatDone
          /\ UNCHANGED <<caller, cursorVars, fieldVars, modeVars, callVars, candVars, saved, lastPop>>
          /\ UNCHANGED <<prevTok, lastTok, notes, fails, returned, made, held>>
          /\ destroyedHeld' = FALSE

\* The loop of getAllTokens() on the token nextToken() returned.
GetAllTokensStep ==
  /\ pc = "gat"
  /\ UNCHANGED rerun
  /\ IF ret.tok.type # EOF
     THEN /\ tokens' = Append(tokens, ret.tok)
          /\ caller' = caller
          /\ returned' = returned
          /\ Enter
     ELSE /\ ret' = ToksRet(tokens)
          /\ tokens' = <<>>
          /\ pc' = "idle"
          /\ gatDone' = IF gatDone < 2 THEN gatDone + 1 ELSE gatDone
          /\ UNCHANGED <<caller, cursorVars, fieldVars, modeVars, callVars, candVars, saved, lastPop>>
          /\ UNCHANGED <<prevTok, lastTok, notes, fails, returned, made, held>>
          /\ destroyedHeld' = FALSE

\* delete _token where _token was already deleted: undefined behaviour, the
\* process aborts (the allocator detects it) or goes on.
DoubleDelete == token.k # "null" /\ tokenFreed

Crash ==
  /\ pc' = "crashed"
  /\ UNCHANGED <<rerun, made, held, destroyedHeld>>
  /\ UNCHANGED <<cursorVars, fieldVars, modeVars, callVars, candVars, logVars, saved, lastPop, caller, tokens, ret>>

\* delete _token destroys a token the caller holds: _token points to a live
\* token that nextToken() has returned.
Destroys(d) == d.token.k # "null" /\ ~d.tokenFreed /\ d.held

\* StartCandidate that leaves the captured start index as it is.
StartCandidateKeepsStart(d, p) ==
  [d EXCEPT !.token = NullToken, !.tokenFreed = FALSE, !.held = FALSE,
            !.destroyedHeld = Destroys(d),
            !.channel = DEFAULT_CHANNEL,
            !.startCol = p.col, !.startLine = p.line, !.text = "",
            !.made = 0]

\* StartCandidate that leaves _token as it is.
StartCandidateKeepsToken(d, p) ==
  [d EXCEPT !.channel = DEFAULT_CHANNEL, !.startIdx = p.idx,
            !.startCol = p.col, !.startLine = p.line, !.text = "",
            !.made = 0]

\* StartCandidate that leaves the channel as it is.
StartCandidateKeepsChannel(d, p) ==
  [d EXCEPT !.token = NullToken, !.tokenFreed = FALSE, !.held = FALSE,
            !.destroyedHeld = Destroys(d),
            !.startIdx = p.idx,
            !.startCol = p.col, !.startLine = p.line, !.text = "",
            !.made = 0]

\* StartCandidate that also sets the latch when the cursor is at end of
\* input, before any match.
StartCandidateLatches(d, p) ==
  [d EXCEPT !.token = NullToken, !.tokenFreed = FALSE, !.held = FALSE,
            !.destroyedHeld = Destroys(d),
            !.channel = DEFAULT_CHANNEL, !.startIdx = p.idx,
            !.startCol = p.col, !.startLine = p.line, !.text = "",
            !.hitEOF = d.hitEOF \/ AtEOF(input, p.idx), !.made = 0]

\* The start of a candidate (the fields reset at the top of the outer loop).
StartCandidate(d, p) ==
  [d EXCEPT !.token = NullToken, !.tokenFreed = FALSE, !.held = FALSE,
            !.destroyedHeld = Destroys(d),
            !.channel = DEFAULT_CHANNEL, !.startIdx = p.idx,
            !.startCol = p.col, !.startLine = p.line, !.text = "",
            !.made = 0]

\* The top of the outer loop of nextToken(): the end-of-input token once
\* the latch is set, else a new candidate.
OuterStep ==
  /\ pc = "outer"
  /\ UNCHANGED rerun
  /\ IF hitEOF
     THEN LET d == EmitEOF(Fields, Pos)
          IN  /\ Commit(Handed(d))
              /\ ReturnToken(d.token)
              /\ UNCHANGED <<cursorVars, candVars, notes, fails>>
     ELSE \/ /\ DoubleDelete
             /\ Crash
          \/ /\ Commit(StartCandidate(Fields, Pos))
             /\ pc' = "match"
             /\ cand' = IF cand <= MaxLog THEN cand + 1 ELSE cand
             /\ chain' = 0
             /\ first' = NoPos
             /\ UNCHANGED <<cursorVars, callVars, logVars, caller, tokens, ret, skipped, afterSkip, spin>>

\* Finish that calls emit() whether or not a token is installed.
FinishAlwaysEmits(d, i) == Emit(d, i)

\* The end of nextToken(): the token an action installed, else the one
\* emit() builds.
Finish(d, i) == IF d.token.k = "null" THEN Emit(d, i) ELSE d

\* One pass of the inner loop of nextToken() on the fields d with the cursor
\* at p: the type is cleared, the engine is invoked once and runs the
\* actions of the rule it matched; a no-viable-alternative failure is
\* reported, recovered from and counts as SKIP; the latch is set at end of
\* input; the type the engine returned is adopted unless an action set one.
\* acted: the fields when the engine is back (exc: what an action threw),
\* p1: the cursor then, d and p2: the fields and the cursor at the end of
\* the pass.
MatchOnce(in, d, p, log) ==
  LET d0 == [d EXCEPT !.type = INVALID_TYPE]
      r == EngineMatch(in, p.idx, d.mode)
      p1 == Advance(in, p, r.n)
      h == IF r.fail THEN HandleNoViable(in, d0, p1, log)
                     ELSE [log |-> log, pos |-> p1]
      d1 == IF r.fail THEN d0 ELSE ApplyActs(d0, r.acts, p1.idx)
      ttype == IF r.fail THEN SKIP ELSE r.ttype
      p2 == h.pos
      d2 == [d1 EXCEPT !.hitEOF = d1.hitEOF \/ AtEOF(in, p2.idx)]
      d3 == IF d2.type = INVALID_TYPE THEN [d2 EXCEPT !.type = ttype] ELSE d2
  IN  [fail |-> r.fail, acted |-> d1, p1 |-> p1, log |-> h.log, d |-> d3, p2 |-> p2]

\* One iteration of the inner loop of nextToken(): SKIP restarts the outer
\* loop, MORE repeats the inner loop, anything else returns the token an
\* action installed or the one emit() builds; an exception of an action
\* leaves the call.
MatchStep ==
  /\ pc = "match"
  /\ UNCHANGED rerun
  /\ \E s \in {MatchOnce(input, Fields, Pos, notes)} :
         /\ spin' = 1 - spin
         /\ first' = IF chain = 0 THEN Pos ELSE first
         /\ fails' = IF s.fail THEN Log(fails, s.p1.idx) ELSE fails
         /\ notes' = s.log
         /\ UNCHANGED <<input, attached, streamVars, cand>>
         /\ IF s.acted.exc # ""
            THEN /\ Commit(s.acted)
                 /\ SetPos(s.p1)
                 /\ Throw(s.acted.exc)
                 /\ UNCHANGED <<chain, skipped, afterSkip>>
            ELSE /\ SetPos(s.p2)
                 /\ IF s.d.type = SKIP
                    THEN /\ Commit(s.d)
                         /\ pc' = "outer"
                         /\ skipped' = skipped \cup {cand}
                         /\ afterSkip' = s.p2.idx
                         /\ UNCHANGED <<callVars, prevTok, lastTok, returned, gatDone, caller, tokens, ret, chain>>
                    ELSE IF s.d.type = MORE
                    THEN /\ Commit(s.d)
                         /\ pc' = "match"
                         /\ chain' = IF chain < MaxChain THEN chain + 1 ELSE chain
                         /\ UNCHANGED <<callVars, prevTok, lastTok, returned, gatDone, caller, tokens, ret, skipped, afterSkip>>
                    ELSE LET d4 == Finish(s.d, s.p2.idx)
                         IN  /\ Commit(Handed(d4))
                             /\ ReturnToken(d4.token)
                             /\ UNCHANGED <<chain, skipped, afterSkip>>

\* Lexer::reset(): the cursor is rewound, _token is deleted and keeps its
\* value, the fields, the latch, the mode, the mode stack and the engine's
\* position are reset.
ResetFields(d) ==
  [d EXCEPT !.tokenFreed = (d.token.k # "null"),
            !.destroyedHeld = Destroys(d),
            !.type = INVALID_TYPE, !.channel = DEFAULT_CHANNEL,
            !.startIdx = -1, !.startCol = -1, !.startLine = -1, !.text = "",
            !.hitEOF = FALSE, !.mode = DEFAULT_MODE, !.modeStack = <<>>,
            !.saved = <<>>, !.lastPop = NoPop, !.made = 0]

Reset ==
  /\ pc = "idle"
  /\ \/ /\ DoubleDelete
        /\ Crash
     \/ /\ Commit(ResetFields(Fields))
        /\ idx' = 0
        /\ line' = 1
        /\ col' = 0
        /\ caller' = "reset"
        /\ ret' = VoidRet
        /\ prevTok' = NullToken
        /\ lastTok' = NullToken
        /\ notes' = <<>>
        /\ fails' = <<>>
        /\ returned' = <<>>
        /\ gatDone' = 0
        /\ rerun' = FALSE
        /\ UNCHANGED <<input, attached, streamVars, callVars, candVars, tokens, pc>>

\* The cursors a caller may give to setInputStream(): the null pointer (0)
\* or one of two cursor objects other than the one attached.
Cursors == {0, 1, 2}

\* The characters of the inputs of the runs that replace the cursor.
StreamAlphabet == {"a", "n"}

\* Lexer::setInputStream(c): the attached cursor is deleted and _input keeps
\* pointing to it; the source pair is rebuilt on it; reset() rewinds it when
\* _input is not null (undefined behaviour on the destroyed cursor: the
\* process aborts or goes on), deletes _token and resets the fields and the
\* engine; then c is attached as it is, at the index k it has, and the
\* source pair is rebuilt on c.
SetInputStream ==
  /\ pc = "idle"
  /\ \/ /\ attached \/ DoubleDelete
        /\ Crash
     \/ /\ Commit(ResetFields(Fields))
        /\ \E c \in Cursors \ {cursor} :
             \E in \in (IF c = 0 THEN {<<>>} ELSE Strings(StreamAlphabet, MaxStreamLen)) :
               \E k \in 0..Len(in) :
                 /\ cursor' = c
                 /\ given' = c
                 /\ pair' = c
                 /\ attached' = (c # 0)
                 /\ input' = in
                 /\ idx' = k
        /\ staleUse' = (staleUse \/ attached)
        /\ line' = 1
        /\ col' = 0
        /\ caller' = "setInputStream"
        /\ ret' = VoidRet
        /\ prevTok' = NullToken
        /\ lastTok' = NullToken
        /\ notes' = <<>>
        /\ fails' = <<>>
        /\ returned' = <<>>
        /\ gatDone' = 0
        /\ rerun' = FALSE
        /\ UNCHANGED <<callVars, candVars, tokens, pc>>

\* The caller calls pushMode(m), popMode(), mode(m).
CallPushMode ==
  /\ pc = "idle"
  /\ Len(modeStack) < MaxStack
  /\ \E m \in Modes : Commit(DoPush(Fields, m))
  /\ caller' = "pushMode"
  /\ ret' = VoidRet
  /\ UNCHANGED <<cursorVars, callVars, candVars, logVars, tokens, pc, rerun>>

CallPopMode ==
  /\ pc = "idle"
  /\ LET d == DoPop(Fields)
     IN  /\ Commit(d)
         /\ ret' = IF d.exc # "" THEN ExcRet(d.exc) ELSE ModeRet(d.ret)
  /\ caller' = "popMode"
  /\ UNCHANGED <<cursorVars, callVars, candVars, logVars, tokens, pc, rerun>>

CallMode ==
  /\ pc = "idle"
  /\ \E m \in Modes : Commit(Mode(Fields, m))
  /\ caller' = "mode"
  /\ ret' = VoidRet
  /\ UNCHANGED <<cursorVars, callVars, candVars, logVars, tokens, pc, rerun>>

Next ==
  \/ CallNextToken
  \/ CallGetAllTokens
  \/ GetAllTokensStep
  \/ OuterStep
  \/ MatchStep
  \/ Reset

Spec == Init /\ [][Next]_vars

\* The same driver with a caller that also changes modes between calls, over
\* the inputs of the mode rules.
ModeAlphabet == {"a", "p", "q"}

InitModes == Init /\ input \in Strings(ModeAlphabet, MaxModeLen)

NextModes ==
  \/ Next
  \/ CallPushMode
  \/ CallPopMode
  \/ CallMode

SpecModes == InitModes /\ [][NextModes]_vars

\* The same driver with a caller that also replaces the cursor between
\* calls, over short inputs.
InitStream == Init /\ input \in Strings(StreamAlphabet, MaxStreamLen)

NextStream ==
  \/ Next
  \/ SetInputStream

SpecStream == InitStream /\ [][NextStream]_vars

\* The driver runs on one thread and a call under way keeps stepping.
InitFair == Init /\ input \in Strings(LoopAlphabet, MaxLoopLen)

SpecFair == InitFair /\ [][Next]_vars /\ WF_vars(Next)

\* ------------------------------------------- the run of a fresh driver
\* The driver's fields after construction.
Constructed ==
  [token |-> NullToken, tokenFreed |-> FALSE, type |-> 0, channel |-> 0,
   startIdx |-> -1, startLine |-> 0, startCol |-> 0, text |-> "",
   hitEOF |-> FALSE, mode |-> DEFAULT_MODE, modeStack |-> <<>>,
   exc |-> "", ret |-> 0, cand |-> 0, saved |-> <<>>, lastPop |-> NoPop,
   made |-> 0, held |-> FALSE, destroyedHeld |-> FALSE]

\* The engine's position after construction.
StartPos == [idx |-> 0, line |-> 1, col |-> 0]

\* The passes of the loops one run may take.
Fuel == 2 * MaxLen + 4

\* nextToken() as a function: from the top of the outer loop (OuterFrom) and
\* from the top of the inner loop (InnerFrom) on the fields d with the
\* cursor at p, the fields and the cursor when the call returns d.token; ok
\* is false when an action throws or the loops do not end within fuel passes.
RECURSIVE OuterFrom(_, _, _, _), InnerFrom(_, _, _, _)
OuterFrom(in, d, p, fuel) ==
  IF fuel = 0 THEN [ok |-> FALSE, d |-> d, p |-> p]
  ELSE IF d.hitEOF THEN [ok |-> TRUE, d |-> EmitEOF(d, p), p |-> p]
  ELSE InnerFrom(in, [StartCandidate(d, p) EXCEPT
                        !.cand = IF d.cand <= MaxLog THEN d.cand + 1 ELSE d.cand],
                 p, fuel - 1)

InnerFrom(in, d, p, fuel) ==
  LET s == MatchOnce(in, d, p, <<>>)
  IN  IF fuel = 0 \/ s.acted.exc # "" THEN [ok |-> FALSE, d |-> d, p |-> p]
      ELSE IF s.d.type = SKIP THEN OuterFrom(in, s.d, s.p2, fuel)
      ELSE IF s.d.type = MORE THEN InnerFrom(in, s.d, s.p2, fuel - 1)
      ELSE [ok |-> TRUE, d |-> Finish(s.d, s.p2.idx), p |-> s.p2]

NextTokenFrom(in, d, p) == OuterFrom(in, [d EXCEPT !.cand = 0, !.made = 0], p, Fuel)

\* The tokens successive nextToken() calls return from d and p, up to and
\* with the first EOF-typed one, in at most n calls.
RECURSIVE RunFrom(_, _, _, _)
RunFrom(in, d, p, n) ==
  IF n = 0 THEN <<>>
  ELSE LET r == NextTokenFrom(in, d, p)
       IN  IF ~r.ok THEN <<>>
           ELSE IF r.d.token.type = EOF THEN <<r.d.token>>
           ELSE <<r.d.token>> \o RunFrom(in, r.d, r.p, n - 1)

\* The first complete run over the input in, from the constructed state.
FirstRun(in) == RunFrom(in, Constructed, StartPos, Len(in) + 1)

\* ---------------------------------------------------------------- claims
Between == pc \in {"idle", "gat"}
JustReturned == Between /\ ret.kind = "token" /\ ret.tok = lastTok

SameToken(t, u) ==
  /\ t.type = u.type
  /\ t.start = u.start
  /\ t.stop = u.stop
  /\ t.line = u.line
  /\ t.col = u.col
  /\ t.channel = u.channel
  /\ t.text = u.text

TokLen(t) == t.stop - t.start + 1

\* C1: once nextToken() has returned a token of type EOF, the
\* token the next call returns (no reset() in between: prevTok and lastTok
\* are the last two tokens returned since the last reset) equals it in type,
\* start, stop, line, column, channel and text.
C1_AnyEOFTypedTokenRepeats ==
  (prevTok.k = "tok" /\ prevTok.type = EOF) => SameToken(lastTok, prevTok)

\* C2: the end-of-input token synthesized by nextToken() has the column of
\* the previous token returned since the last reset plus that token's
\* length (stop - start + 1) when there is such a token, and the engine's
\* column when there is none.
C2_EOFColumnFollowsPreviousToken ==
  (JustReturned /\ lastTok.by = "emitEOF") =>
     lastTok.col = (IF prevTok.k = "tok" THEN prevTok.col + TokLen(prevTok) ELSE col)

\* C3: every no-viable-alternative failure is notified exactly once, with
\* the cursor where the failure left it (before the recovery consumes), and
\* never leaves nextToken(); the input of a valid token, an illegal
\* character and a valid token yields the first token without a
\* notification, then the second token with exactly one.
C3_OneNotificationPerFailure ==
  /\ Len(notes) = Len(fails)
  /\ \A i \in 1..Len(notes) : notes[i].at = fails[i]
  /\ ret.kind = "exc" => ret.exc \in {"EmptyStack", "IllegalState"}
  /\ (input = <<"a", "#", "a">> /\ JustReturned /\ gatDone = 0) =>
        /\ (lastTok.start = 0 /\ lastTok.type # EOF) => notes = <<>>
        /\ (lastTok.start = 2 /\ lastTok.type # EOF) =>
              /\ prevTok.k = "tok" /\ prevTok.start = 0 /\ prevTok.stop = 0
              /\ Len(notes) = 1 /\ notes[1].start = 1 /\ notes[1].at = 1
        /\ lastTok.type = EOF =>
              (Len(notes) = 1 /\ (prevTok.type # EOF => prevTok.start = 2))

C3_Witness ==
  /\ input = <<"a", "#", "a">>
  /\ JustReturned
  /\ lastTok.type = EOF
  /\ prevTok.k = "tok" /\ prevTok.start = 2 /\ prevTok.stop = 2
  /\ Len(notes) = 1
  /\ idx = 3

\* C4: every nextToken() call on a driver with a cursor takes one mark and
\* releases it once on every way out (a token, the end-of-input token, a
\* token after SKIP restarts, an exception raised by an action), so that no
\* mark is outstanding between calls.
C4_MarkReleasedOnEveryExit ==
  /\ Between => marks = 0
  /\ pc \in {"outer", "match"} => (marks = 1 /\ taken = 1 /\ released = 0)
  /\ (Between /\ ret.kind = "token") => (taken = 1 /\ released = 1)
  /\ (Between /\ ret.kind = "exc" /\ ret.exc = "EmptyStack"
        /\ caller \in {"nextToken", "getAllTokens"}) => (taken = 1 /\ released = 1)

C4_Witness ==
  /\ pc = "idle"
  /\ ret.kind = "exc" /\ ret.exc = "EmptyStack"
  /\ caller = "getAllTokens"
  /\ skipped # {}
  /\ marks = 0 /\ released = 1

\* C5 (as stated): every getAllTokens() call on a non-empty input ends.
C5_GetAllTokensTerminates ==
  (caller = "getAllTokens" /\ pc # "idle" /\ input # <<>>) ~> (pc \in {"idle", "crashed"})

\* C5 (amended): with an engine whose every match away from end of input
\* consumes at least one character, every nextToken() call ends (a token,
\* EmptyStack from an action, or the abort of a double deletion), and so
\* does every getAllTokens() call.
MatchesConsume == \A i \in 1..Len(input) : input[i] # "z"

C5_TerminatesWhenMatchesConsume ==
  /\ (MatchesConsume /\ pc \in {"outer", "match"}) ~> (pc \in {"idle", "gat", "crashed"})
  /\ (MatchesConsume /\ caller = "getAllTokens" /\ pc # "idle") ~> (pc \in {"idle", "crashed"})

C5_Witness ==
  /\ input = <<"#", "m">>
  /\ pc = "idle"
  /\ ret.kind = "tokens"
  /\ ret.toks = <<>>
  /\ Len(notes) = 1
  /\ lastTok.type = EOF /\ lastTok.by = "emit"
  /\ lastTok.start = 1 /\ lastTok.stop = 1

\* C6: the sequence getAllTokens() returns is, in order, the tokens its
\* nextToken() calls returned before the first EOF-typed one (returned is
\* the log of those calls), it holds no EOF-typed token, and a second
\* getAllTokens() with no reset() in between returns the empty sequence.
C6_GetAllTokensIsPrefixBeforeEOF ==
  (pc = "idle" /\ ret.kind = "tokens") =>
     /\ returned # <<>>
     /\ returned[Len(returned)].type = EOF
     /\ ret.toks = SubSeq(returned, 1, Len(returned) - 1)
     /\ Len(ret.toks) = Len(returned) - 1
     /\ \A i \in 1..Len(ret.toks) : ret.toks[i].type # EOF
     /\ gatDone = 2 => ret.toks = <<>>

C6_Witness ==
  /\ input = <<"a", "n", "a">>
  /\ pc = "idle"
  /\ ret.kind = "tokens"
  /\ gatDone = 2
  /\ ret.toks = <<>>
  /\ Len(returned) = 1

\* C7: a popMode() restores the mode and the mode stack that the matching
\* pushMode() found and returns that mode, at any nesting depth (so k
\* pushes followed by k pops end in the mode and stack before the first).
C7_PushPopRestores ==
  (lastPop.done /\ ~lastPop.empty) =>
     /\ lastPop.exc = ""
     /\ lastPop.mode = lastPop.wantMode
     /\ lastPop.stack = lastPop.wantStack
     /\ lastPop.ret = lastPop.wantMode

C7_Witness ==
  /\ caller = "popMode"
  /\ lastPop.done /\ ~lastPop.empty
  /\ lastPop.wantMode = OTHER_MODE
  /\ lastPop.wantStack = <<DEFAULT_MODE>>
  /\ mode = OTHER_MODE /\ modeStack = <<DEFAULT_MODE>>

\* C8: popMode() on an empty mode stack fails with EmptyStack and leaves the
\* mode and the empty stack as they were, whether the caller or an action
\* calls it.
C8_PopOnEmptyFails ==
  /\ (lastPop.done /\ lastPop.empty) =>
        /\ lastPop.exc = "EmptyStack"
        /\ lastPop.mode = lastPop.wantMode
        /\ lastPop.stack = <<>>
  /\ (lastPop.done /\ lastPop.empty /\ caller = "popMode") =>
        (ret.kind = "exc" /\ ret.exc = "EmptyStack" /\ mode = lastPop.wantMode /\ modeStack = <<>>)

C8_Witness ==
  /\ caller = "popMode"
  /\ lastPop.done /\ lastPop.empty
  /\ ret.kind = "exc" /\ ret.exc = "EmptyStack"
  /\ mode = OTHER_MODE
  /\ lastTok.k = "tok"

\* C9: while a candidate is continued by MORE its captured start index,
\* line and column stay those of its first match (first is the cursor
\* position when the engine was first invoked for the candidate), and the
\* token the default emission then builds starts there and stops one before
\* the cursor index after the last match.
C9_MoreKeepsStart ==
  /\ (pc = "match" /\ chain > 0) =>
        (startIdx = first.idx /\ startLine = first.line /\ startCol = first.col)
  /\ (JustReturned /\ lastTok.by = "emit" /\ chain > 0) =>
        /\ lastTok.start = first.idx
        /\ lastTok.line = first.line
        /\ lastTok.col = first.col
        /\ lastTok.stop = idx - 1

C9_Witness ==
  /\ JustReturned
  /\ lastTok.by = "emit"
  /\ chain = 2
  /\ lastTok.start = 0 /\ lastTok.stop = 2
  /\ input = <<"m", "m", "a">>
  /\ lastTok.line = 1 /\ lastTok.col = 0

\* C10: a candidate whose type resolves to SKIP is not returned by
\* nextToken() and not given to the token factory by emit(), even when an
\* action installed a token for it (skipped holds the candidates of the
\* call that were skipped); the next candidate starts at the cursor index
\* the skipped candidate left.
C10_SkippedCandidateYieldsNoToken ==
  /\ (JustReturned /\ lastTok.by \in {"emit", "action"}) =>
        (lastTok.cand \notin skipped /\ lastTok.cand = cand)
  /\ (pc = "match" \/ (pc = "outer" /\ cand \in skipped)) => token.by # "emit"
  /\ (pc = "match" /\ chain = 0 /\ first = NoPos /\ (cand - 1) \in skipped) =>
        startIdx = afterSkip

C10_Witness ==
  /\ input = <<"s", "a">>
  /\ JustReturned
  /\ skipped = {1}
  /\ lastTok.by = "emit" /\ lastTok.cand = 2
  /\ lastTok.start = 1 /\ lastTok.stop = 1
  /\ afterSkip = 1

\* What the runs after a reset() that are not cut short return: the tokens
\* of the first complete run from the constructed state.
RerunEqualsFirstRun ==
  (rerun /\ pc = "idle" /\ ret.kind = "tokens") => returned = FirstRun(input)

\* C11: after a reset(), at any point, tokenizing the input to end of input
\* (the getAllTokens() that follows the reset()) is not cut short and the
\* tokens its nextToken() calls return, the end-of-input token included, are
\* those of the first complete run from the constructed state.
C11_ResetReproducesFirstRun ==
  /\ rerun => pc # "crashed"
  /\ RerunEqualsFirstRun

C13_LatchSetAtEOFUntilReset ==
  [][/\ (~hitEOF /\ hitEOF') =>
          (pc = "match" /\ spin' # spin /\ AtEOF(input, idx'))
     /\ (hitEOF /\ ~hitEOF') => caller' = "reset"
     /\ (pc = "outer" /\ hitEOF) =>
          /\ pc' \in {"idle", "gat"}
          /\ ret'.kind = "token" /\ ret'.tok.type = EOF
          /\ idx' = idx /\ line' = line /\ col' = col
          /\ spin' = spin]_vars

C13_Witness ==
  /\ JustReturned
  /\ hitEOF
  /\ prevTok.by = "emitEOF" /\ lastTok.by = "emitEOF"
  /\ input = <<"a", "n", "a">>
  /\ idx = 3
  /\ caller = "nextToken"

\* C14: after reset() the driver holds no current token, the type is
\* INVALID, the channel the default one, the start fields -1, the text
\* empty, the latch clear, the mode the default one and the mode stack
\* empty; and the token that was current before a reset() is never the one
\* a later operation finds and deletes.
C14_ResetLeavesNoToken ==
  /\ (pc = "idle" /\ caller = "reset") =>
        /\ token = NullToken
        /\ type = INVALID_TYPE
        /\ channel = DEFAULT_CHANNEL
        /\ startIdx = -1 /\ startLine = -1 /\ startCol = -1
        /\ text = ""
        /\ ~hitEOF
        /\ mode = DEFAULT_MODE
        /\ modeStack = <<>>
  /\ ~DoubleDelete
  /\ pc # "crashed"

\* C15: the end-of-input token emitEOF() synthesizes has type EOF, the
\* cursor index as start, the cursor index minus one as stop, the engine's
\* line and the default channel, whatever the pending channel is.
C15_EOFTokenSpanLineChannel ==
  (JustReturned /\ lastTok.by = "emitEOF") =>
     /\ lastTok.type = EOF
     /\ lastTok.start = idx
     /\ lastTok.stop = idx - 1
     /\ lastTok.line = line
     /\ lastTok.channel = DEFAULT_CHANNEL

C15_Witness ==
  /\ JustReturned
  /\ input = <<"n", "h">>
  /\ lastTok.by = "emitEOF"
  /\ prevTok.channel = HIDDEN_CHANNEL
  /\ channel = HIDDEN_CHANNEL
  /\ lastTok.channel = DEFAULT_CHANNEL
  /\ lastTok.start = 2 /\ lastTok.stop = 1 /\ lastTok.line = 2

\* The cursor indexes from i up to end at which a match of the engine
\* starts.
RECURSIVE MatchStarts(_, _)
MatchStarts(i, end) ==
  IF i >= end THEN {}
  ELSE LET n == Rule(input[i + 1], Remaining(input, i), mode).n
       IN  IF n = 0 THEN {i} ELSE {i} \cup MatchStarts(i + n, end)

\* A match of the pending candidate ran the rule whose action installs a
\* token with emit(token).
Installs == \E i \in MatchStarts(startIdx, idx) : input[i + 1] = "e"

\* C16: when an action installed a token with emit(token) for the candidate
\* that ends the call, nextToken() returns that token and the factory is
\* not called for the candidate; otherwise the factory is called once, with
\* the captured start, the cursor index minus one, the pending channel and
\* type, and nextToken() returns what it made.

C16_InstalledTokenOrOneEmission ==
  (JustReturned /\ lastTok.by # "emitEOF") =>
     /\ lastTok = token
     /\ IF Installs
        THEN /\ lastTok.by = "action"
             /\ lastTok.type = CUSTOM_TYPE
             /\ lastTok.cand = cand
             /\ made = 0
        ELSE /\ lastTok.by = "emit"
             /\ made = 1
             /\ lastTok.start = startIdx
             /\ lastTok.stop = idx - 1
             /\ lastTok.channel = channel
             /\ lastTok.type = type
             /\ lastTok.cand = cand

C16_Witness ==
  /\ JustReturned
  /\ input = <<"a", "m", "e">>
  /\ prevTok.by = "emit" /\ prevTok.start = 0 /\ prevTok.stop = 0
  /\ lastTok.by = "action"
  /\ lastTok.start = 1 /\ lastTok.stop = 2
  /\ chain = 1
  /\ made = 0

\* A match of the pending candidate ran a rule whose action calls
\* setChannel() and setText().
SetsChannelAndText == \E i \in MatchStarts(startIdx, idx) : input[i + 1] \in {"h", "M"}

\* C17: every candidate starts with the default channel and no text
\* override; during the candidate and in the token emit() builds for it the
\* channel and the text are those its own actions set, also across MORE
\* continuations, whatever the actions of earlier or skipped candidates set.
C17_ChannelAndTextPerCandidate ==
  /\ (pc = "match" /\ chain = 0) => (channel = DEFAULT_CHANNEL /\ text = "")
  /\ pc = "match" =>
        /\ channel = (IF SetsChannelAndText THEN HIDDEN_CHANNEL ELSE DEFAULT_CHANNEL)
        /\ text = (IF SetsChannelAndText THEN "x" ELSE "")
  /\ (JustReturned /\ lastTok.by = "emit") =>
        /\ lastTok.channel = (IF SetsChannelAndText THEN HIDDEN_CHANNEL ELSE DEFAULT_CHANNEL)
        /\ lastTok.text = (IF SetsChannelAndText THEN "x" ELSE "")

C17_Witness ==
  /\ JustReturned
  /\ input = <<"M", "a", "a">>
  /\ prevTok.by = "emit" /\ prevTok.start = 0 /\ prevTok.stop = 1
  /\ prevTok.channel = HIDDEN_CHANNEL /\ prevTok.text = "x"
  /\ lastTok.by = "emit" /\ lastTok.start = 2 /\ lastTok.stop = 2
  /\ lastTok.channel = DEFAULT_CHANNEL /\ lastTok.text = ""

\* C18: the driver never destroys a token that nextToken() has returned and
\* the caller (getAllTokens() with its vector, or the caller of nextToken())
\* still holds.
C18_ReturnedTokensStayAlive == ~destroyedHeld

\* What setInputStream(c) leaves when it returns: c attached and named by
\* the source pair, the engine at line 1, column 0, and the type, the
\* channel, the start fields, the text, the latch, the mode and the mode
\* stack as reset() leaves them.
SetInputStreamAttaches ==
  (pc = "idle" /\ caller = "setInputStream") =>
     /\ cursor = given
     /\ attached = (given # 0)
     /\ pair = given
     /\ line = 1 /\ col = 0
     /\ type = INVALID_TYPE
     /\ channel = DEFAULT_CHANNEL
     /\ startIdx = -1 /\ startLine = -1 /\ startCol = -1
     /\ text = ""
     /\ ~hitEOF
     /\ mode = DEFAULT_MODE
     /\ modeStack = <<>>

\* C19: setInputStream(c) performs no operation on the cursor it destroyed,
\* and when it returns the attached cursor is c, the source pair names c,
\* the driver is in the state reset() leaves and c is at its start.
C19_SetInputStreamAttachesFresh ==
  /\ ~staleUse
  /\ SetInputStreamAttaches
  /\ (pc = "idle" /\ caller = "setInputStream") => idx = 0

\* The token t was built by the driver: by emit() or by emitEOF().
DriverBuilt(t) == t.k = "tok" /\ t.by \in {"emit", "emitEOF"}

\* The token u, returned after the token t, starts after t stops.
Follows(t, u) == u.start >= t.stop + 1

\* C20: between two reset() calls, every token the driver built and
\* nextToken() returned has stop >= start - 1, and of two such tokens the
\* later one (the end-of-input token included) starts at or after the stop
\* of the earlier one plus one: for the last two tokens returned and for
\* every pair of the list getAllTokens() is building.
C20_ReturnedSpansIncrease ==
  /\ DriverBuilt(lastTok) => lastTok.stop >= lastTok.start - 1
  /\ (DriverBuilt(prevTok) /\ DriverBuilt(lastTok)) => Follows(prevTok, lastTok)
  /\ \A i \in DOMAIN returned : \A j \in DOMAIN returned :
        (i < j /\ DriverBuilt(returned[i]) /\ DriverBuilt(returned[j])) =>
           Follows(returned[i], returned[j])

\* Input "a" "w" "a": the token of "a" over 0..0 is followed by the token of
\* "w" over 1..2.
C20_Witness ==
  /\ JustReturned
  /\ input = <<"a", "w", "a">>
  /\ prevTok.k = "tok" /\ prevTok.by = "emit" /\ prevTok.start = 0 /\ prevTok.stop = 0
  /\ lastTok.by = "emit" /\ lastTok.start = 1 /\ lastTok.stop = 2

====
